---- MODULE Spec2Model ----
(***************************************************************************)
(* Control-plane model of libv4l-rs: the capture device (src/device.rs)    *)
(* and the media device (src/media/device.rs).  Every operation talks to   *)
(* the kernel driver through ioctl exchanges; the driver is the            *)
(* environment and answers each request nondeterministically.  `trace`     *)
(* records every request that was issued together with the driver's        *)
(* answer, so that properties about "which requests are sent, in which     *)
(* order, and what is returned" are state predicates.                      *)
(***************************************************************************)
EXTENDS Integers, Sequences, FiniteSets, TLC

VARIABLES
    op,         \* the operation being executed ("idle" before the call)
    pc,         \* position inside the operation: "idle", a loop label, "done"
    trace,      \* every ioctl issued so far, with the driver's response
    result,     \* what the operation returned (Ok / Err), or that it panicked
    v4l2_ctrl,  \* query_controls: the v4l2_query_ext_ctrl carried across calls
    controls,   \* query_controls: Vec<Description> collected so far
    control,    \* query_controls: the Description whose menu is being scanned
    items,      \* query_controls: menu items collected for `control`
    menu_i,     \* query_controls: cursor of the stepped range min..=max
    ctrls,      \* set_controls: the caller's Vec<Control>
    index,      \* enum_inputs / enum_outputs: cursor of (0..)
    desc,       \* enum_entities: the media_entity_desc carried across calls
    collected,  \* enum_*: items the scan has yielded so far
    call,       \* the caller's argument of a single-request operation
    refs,       \* per thread: the Device values and Arc<Handle> clones it owns
    strong,     \* the strong count of the Arc that owns the Handle
    dropping,   \* per thread: the count its Arc drop saw (0: not dropping)
    closes      \* every v4l2::close of the descriptor, with its outcome

vars == <<op, pc, trace, result, v4l2_ctrl, controls, control, items, menu_i,
          ctrls, index, desc, collected, call, refs, strong, dropping, closes>>

\* the state of the shared descriptor handle
lifecycle == <<refs, strong, dropping, closes>>

\* the state of the multi-request operations
scans == <<v4l2_ctrl, controls, control, items, menu_i, ctrls, index, desc,
           collected>>

-----------------------------------------------------------------------------
(* Bounds of the model. *)

\* the driver answers at most this many query-next requests successfully
MaxControls == 2
\* largest `maximum` a menu control of the driver declares
MaxMenuIndex == 2
\* largest number of controls in one set_controls batch
MaxBatch == 3
\* the driver accepts at most this many enumerate requests of one scan
MaxItems == 3
\* largest number of references to the Handle alive at one time
MaxRefs == 3
\* largest link count of an entity passed to enum_links
MaxLinks == 2

-----------------------------------------------------------------------------
(* 32-bit unsigned values, kept as two 16-bit halves so that bit 31 and    *)
(* the class mask 0xFFFF0000 are represented exactly.                      *)

Half == 65536

U32(hi, lo) == [hi |-> hi, lo |-> lo]

Zero32 == U32(0, 0)

RECURSIVE BitOr(_, _)
BitOr(a, b) ==
    IF a = 0 THEN b
    ELSE IF b = 0 THEN a
    ELSE (IF (a % 2 = 1) \/ (b % 2 = 1) THEN 1 ELSE 0)
         + 2 * BitOr(a \div 2, b \div 2)

RECURSIVE BitAnd(_, _)
BitAnd(a, b) ==
    IF a = 0 \/ b = 0 THEN 0
    ELSE (IF (a % 2 = 1) /\ (b % 2 = 1) THEN 1 ELSE 0)
         + 2 * BitAnd(a \div 2, b \div 2)

Or32(a, b) == U32(BitOr(a.hi, b.hi), BitOr(a.lo, b.lo))

And32(a, b) == U32(BitAnd(a.hi, b.hi), BitAnd(a.lo, b.lo))

\* `i as u32` for a signed 64-bit i: the low 32 bits, two's complement
AsU32(i) == U32((i \div Half) % Half, i % Half)

-----------------------------------------------------------------------------
(* The syscall layer: v4l2::ioctl returns Ok(()) or the OS error, whose    *)
(* kind std derives from errno.                                            *)

Errnos == {"EINVAL", "EIO"}

ErrorKind(errno) ==
    CASE errno = "EINVAL" -> "InvalidInput"
      [] errno = "EBUSY"  -> "ResourceBusy"
      [] OTHER            -> "Other"

\* io::Error::last_os_error() for a failed ioctl
OsError(errno) == [kind |-> ErrorKind(errno), os |-> errno]

\* io::Error::new(kind, msg)
NewError(kind) == [kind |-> kind, os |-> "none"]

Ok(v) == [tag |-> "Ok", value |-> v]

Err(e) == [tag |-> "Err", error |-> e]

NoResult == [tag |-> "none"]

Panicked == [tag |-> "panic"]

\* one ioctl exchange: request code, the argument as sent, the driver's
\* answer ("Ok" or an errno) and what the driver wrote back on success
Exchange(code, arg, res, out) == [code |-> code, arg |-> arg, res |-> res, out |-> out]

NoOut == [none |-> TRUE]

-----------------------------------------------------------------------------
(* query_controls *)

V4L2_CTRL_FLAG_NEXT_CTRL == U32(32768, 0)

V4L2_CTRL_FLAG_NEXT_COMPOUND == U32(16384, 0)

\* mem::zeroed() v4l2_query_ext_ctrl
ZeroedCtrl == [id |-> Zero32, type |-> "zero", minimum |-> 0, maximum |-> 0, step |-> 0]

QueryExtCtrl(id, type, minimum, maximum, step) ==
    [id |-> id, type |-> type, minimum |-> minimum, maximum |-> maximum, step |-> step]

\* what the driver may write into the v4l2_query_ext_ctrl on success: two
\* integer controls of the user class (0x00980900, 0x00980901), a menu
\* (0x009A0901) over 1..=max, an integer menu (0x009F0901) over 0..=max in
\* steps of 2, a menu whose range is empty, and a menu and an integer menu
\* whose step is 0.
\* Menu ranges start at 0 or above: a menu index is a u32 on the wire
DriverCtrls ==
    { QueryExtCtrl(U32(152, 2304), "Integer", 0, 1, 1),
      QueryExtCtrl(U32(152, 2305), "Integer", 0, 1, 1),
      QueryExtCtrl(U32(154, 2305), "Menu", 1, MaxMenuIndex, 1),
      QueryExtCtrl(U32(159, 2305), "IntegerMenu", 0, MaxMenuIndex, 2),
      QueryExtCtrl(U32(154, 2324), "Menu", 1, 0, 1),
      QueryExtCtrl(U32(154, 2325), "Menu", 0, MaxMenuIndex, 0),
      QueryExtCtrl(U32(159, 2325), "IntegerMenu", 0, 0, 0) }

\* Description::from(v4l2_query_ext_ctrl)
DescriptionFrom(c) ==
    [id |-> c.id, typ |-> c.type, minimum |-> c.minimum, maximum |-> c.maximum,
     step |-> c.step, items |-> [some |-> FALSE, list |-> <<>>]]

Some(list) == [some |-> TRUE, list |-> list]

\* lines 99-101: the two types whose menu is scanned
IsMenuType_MenuOnly(typ) == typ = "Menu"

IsMenuType(typ) == typ = "Menu" \/ typ = "IntegerMenu"

\* MenuItem::try_from((typ, v4l2_querymenu)): a name for a Menu, a value for
\* an IntegerMenu
MenuItemTryFrom(typ) ==
    CASE typ = "Menu"        -> "Name"
      [] typ = "IntegerMenu" -> "Value"
      [] OTHER               -> "Err"

\* lines 90-91: both continuation flags are OR'ed into the carried id
NextCtrlId_OnlyNextCtrl(id) == Or32(id, V4L2_CTRL_FLAG_NEXT_CTRL)

NextCtrlId(id) == Or32(Or32(id, V4L2_CTRL_FLAG_NEXT_CTRL), V4L2_CTRL_FLAG_NEXT_COMPOUND)

QueryErrOutcome_AlwaysReturns(cs, errno) == "return"

QueryErrOutcome_NoEmptyCheck(cs, errno) ==
    IF ErrorKind(errno) # "InvalidInput" THEN "return" ELSE "break"

QueryErrOutcome_EmptyCheckOnly(cs, errno) ==
    IF cs = <<>> THEN "return" ELSE "break"

QueryErrOutcome_BreaksOnAnyError(cs, errno) ==
    IF cs = <<>> /\ ErrorKind(errno) # "InvalidInput" THEN "return" ELSE "break"

\* lines 145-151: what a failed query-next does to the loop
QueryErrOutcome(cs, errno) ==
    IF cs = <<>> \/ ErrorKind(errno) # "InvalidInput" THEN "return" ELSE "break"

\* line 143 / 137: Vec::push
Push(vec, x) == Append(vec, x)

MenuItems_KeepsRejected(its, res, idx, typ) ==
    Append(its, [index |-> idx, item |-> MenuItemTryFrom(typ)])

\* lines 131-137: a rejected menu query is skipped, an accepted one adds
\* (index, item)
MenuItems(its, res, idx, typ) ==
    IF res # "Ok" THEN its
    ELSE Push(its, [index |-> idx, item |-> MenuItemTryFrom(typ)])

\* lines 107-108: Iterator::step_by asserts that the step is not zero,
\* before the first element is asked for
StepByPanics_Never(step) == FALSE

StepByPanics(step) == step = 0

\* lines 107-108: the next element of (minimum..=maximum).step_by(step)
NextMenuIndex(i, step) == i + step

\* line 140-143: the menu scan of `c` is over
FinishControl(cs, c, its) == Push(cs, [c EXCEPT !.items = Some(its)])

\* the driver answers an ioctl: "Ok" or an errno
Responses == {"Ok"} \cup Errnos

NumOk(code) == Cardinality({p \in 1..Len(trace) : trace[p].code = code /\ trace[p].res = "Ok"})

query_controls_call ==
    /\ pc = "idle"
    /\ op' = "query_controls"
    /\ pc' = "qc_loop"
    /\ controls' = <<>>
    /\ v4l2_ctrl' = ZeroedCtrl
    /\ UNCHANGED <<trace, result, control, items, menu_i, ctrls, index, desc, collected>>
    /\ UNCHANGED <<call, lifecycle>>

\* one iteration of the loop of lines 89-153 up to the menu scan
query_ext_ctrl ==
    /\ pc = "qc_loop"
    /\ LET id == NextCtrlId(v4l2_ctrl.id) IN
       \E res \in Responses :
         /\ res = "Ok" => NumOk("VIDIOC_QUERY_EXT_CTRL") < MaxControls
         /\ IF res = "Ok"
            THEN \E out \in DriverCtrls :
                   LET c == DescriptionFrom(out) IN
                   /\ trace' = Append(trace, Exchange("VIDIOC_QUERY_EXT_CTRL", [id |-> id], res, out))
                   /\ v4l2_ctrl' = out
                   /\ IF ~IsMenuType(c.typ)
                      THEN /\ controls' = Push(controls, c)
                           /\ UNCHANGED <<pc, result, control, items, menu_i>>
                      ELSE IF StepByPanics(out.step)
                      THEN \* Iterator::step_by(0) panics
                           /\ pc' = "done"
                           /\ result' = Panicked
                           /\ UNCHANGED <<controls, control, items, menu_i>>
                      ELSE IF out.minimum > out.maximum
                      THEN \* empty range: no menu query at all
                           /\ controls' = FinishControl(controls, c, <<>>)
                           /\ UNCHANGED <<pc, result, control, items, menu_i>>
                      ELSE /\ pc' = "qc_menu"
                           /\ control' = c
                           /\ items' = <<>>
                           /\ menu_i' = out.minimum
                           /\ UNCHANGED <<controls, result>>
            ELSE /\ trace' = Append(trace, Exchange("VIDIOC_QUERY_EXT_CTRL", [id |-> id], res, NoOut))
                 /\ v4l2_ctrl' = [v4l2_ctrl EXCEPT !.id = id]
                 /\ pc' = "done"
                 /\ result' = IF QueryErrOutcome(controls, res) = "return"
                              THEN Err(OsError(res))
                              ELSE Ok(controls)
                 /\ UNCHANGED <<controls, control, items, menu_i>>
    /\ UNCHANGED <<op, ctrls, index, desc, collected>>
    /\ UNCHANGED <<call, lifecycle>>

\* one iteration of the menu scan of lines 107-138; the last one also
\* stores the items and pushes the control (lines 140-143)
query_menu ==
    /\ pc = "qc_menu"
    /\ LET arg == [id |-> v4l2_ctrl.id, index |-> AsU32(menu_i)] IN
       \E res \in Responses :
           LET its  == MenuItems(items, res, arg.index, control.typ)
               next == NextMenuIndex(menu_i, v4l2_ctrl.step)
               last == next > v4l2_ctrl.maximum
           IN
           /\ trace' = Append(trace, Exchange("VIDIOC_QUERYMENU", arg, res, NoOut))
           /\ IF last
              THEN /\ controls' = FinishControl(controls, control, its)
                   /\ pc' = "qc_loop"
                   /\ UNCHANGED <<items, menu_i>>
              ELSE /\ items' = its
                   /\ menu_i' = next
                   /\ UNCHANGED <<controls, pc>>
    /\ UNCHANGED <<op, result, v4l2_ctrl, control, ctrls, index, desc, collected>>
    /\ UNCHANGED <<call, lifecycle>>

-----------------------------------------------------------------------------
(* set_controls *)

\* the class of a control id: id & 0xFFFF0000
CLASS_MASK == U32(65535, 0)

ControlClass_Unmasked(id) == id

ControlClass(id) == And32(id, CLASS_MASK)

\* Option<u32>
NoneClass == [some |-> FALSE, v |-> Zero32]

SomeClass(c) == [some |-> TRUE, v |-> c]

NextClass_Unchecked(class, id) ==
    [mixed |-> FALSE,
     class |-> IF class.some THEN class ELSE SomeClass(ControlClass(id))]

\* lines 235-247: the class seen so far against the next control's id;
\* `mixed` is the early return
NextClass(class, id) ==
    IF class.some
    THEN IF class.v # ControlClass(id)
         THEN [mixed |-> TRUE, class |-> class]
         ELSE [mixed |-> FALSE, class |-> SomeClass(class.v)]
    ELSE [mixed |-> FALSE, class |-> SomeClass(ControlClass(id))]

BoolAsI64(b) == IF b THEN 1 ELSE 0

\* control::Value: the variant, and its payload (an integer, a boolean or a
\* buffer of elements)
Value(tag, int, bool, buf) == [tag |-> tag, int |-> int, bool |-> bool, buf |-> buf]

\* a v4l2_ext_control: the union member that was written, its value64 or the
\* buffer its pointer refers to
WireControl(id, size, member, value64, buf) ==
    [id |-> id, size |-> size, member |-> member, value64 |-> value64, buf |-> buf]

\* std::mem::size_of::<u8 / u16 / u32>()
SizeOf_ElementCount(tag) == 1

SizeOf(tag) ==
    CASE tag = "CompoundU16" -> 2
      [] tag = "CompoundU32" -> 4
      [] OTHER               -> 1

\* lines 231-234, 249-279: the v4l2_ext_control built for one Control
ExtControl(ctrl) ==
    LET v == ctrl.value IN
    CASE v.tag = "None"        -> WireControl(ctrl.id, 0, "zeroed", 0, <<>>)
      [] v.tag = "Integer"     -> WireControl(ctrl.id, 0, "value64", v.int, <<>>)
      [] v.tag = "Boolean"     -> WireControl(ctrl.id, 0, "value64", BoolAsI64(v.bool), <<>>)
      [] v.tag = "String"      -> WireControl(ctrl.id, Len(v.buf), "string", 0, v.buf)
      [] v.tag = "CompoundU8"  -> WireControl(ctrl.id, Len(v.buf) * SizeOf(v.tag), "p_u8", 0, v.buf)
      [] v.tag = "CompoundU16" -> WireControl(ctrl.id, Len(v.buf) * SizeOf(v.tag), "p_u16", 0, v.buf)
      [] v.tag = "CompoundU32" -> WireControl(ctrl.id, Len(v.buf) * SizeOf(v.tag), "p_u32", 0, v.buf)
      [] v.tag = "CompoundPtr" -> WireControl(ctrl.id, Len(v.buf) * SizeOf(v.tag), "ptr", 0, v.buf)

\* lines 230-282: the loop over the batch; it stops at the first control of
\* another class
RECURSIVE BuildControlList(_, _, _)
BuildControlList(rest, class, control_list) ==
    IF rest = <<>>
    THEN [mixed |-> FALSE, class |-> class, control_list |-> control_list]
    ELSE LET c == NextClass(class, Head(rest).id) IN
         IF c.mixed
         THEN [mixed |-> TRUE, class |-> class, control_list |-> control_list]
         ELSE BuildControlList(Tail(rest), c.class, Push(control_list, ExtControl(Head(rest))))

\* lines 291-297: the v4l2_ext_controls handed to VIDIOC_S_EXT_CTRLS
ExtControls(control_list, class) ==
    [count |-> Len(control_list), controls |-> control_list, which |-> class]

\* ids a caller may name: 0x00980900 and 0x00980901 (user class) and
\* 0x009A0901 (camera class)
SetIds == {U32(152, 2304), U32(152, 2305), U32(154, 2305)}

ControlValues ==
    { Value("None", 0, FALSE, <<>>),
      Value("Integer", -1, FALSE, <<>>),
      Value("Boolean", 0, TRUE, <<>>),
      Value("String", 0, FALSE, <<97, 98>>),
      Value("CompoundU8", 0, FALSE, <<7>>),
      Value("CompoundU16", 0, FALSE, <<1, 2, 3>>),
      Value("CompoundU32", 0, FALSE, <<1, 2>>),
      Value("CompoundPtr", 0, FALSE, <<1, 2, 3>>) }

\* the controls a caller may put in a batch: every value variant on the
\* first id, and a scalar, an absent and a string value on every id
Controls ==
    { c \in [id : SetIds, value : ControlValues] :
        c.id = U32(152, 2304) \/ c.value.tag \in {"None", "Integer", "String"} }

RECURSIVE SeqsUpTo(_, _)
SeqsUpTo(S, n) ==
    IF n = 0 THEN {<<>>}
    ELSE LET shorter == SeqsUpTo(S, n - 1) IN
         shorter \cup {Append(q, x) : q \in {r \in shorter : Len(r) = n - 1}, x \in S}

Unit == "()"

\* what set_controls decides before it talks to the device: an early
\* return with an error, or the request to submit
Reject(kind) == [submit |-> FALSE, error |-> NewError(kind), request |-> ExtControls(<<>>, Zero32)]

Submit(request) == [submit |-> TRUE, error |-> NewError("none"), request |-> request]

\* lines 230-297: a non-empty batch
PrepareNonEmpty(batch) ==
    LET built == BuildControlList(batch, NoneClass, <<>>) IN
    IF built.mixed THEN Reject("InvalidInput")
    ELSE IF ~built.class.some THEN Reject("InvalidInput")
    ELSE Submit(ExtControls(built.control_list, built.class.v))

Prepare_SubmitsEmpty(batch) ==
    IF batch = <<>> THEN Submit(ExtControls(<<>>, Zero32)) ELSE PrepareNonEmpty(batch)

\* lines 219-297: the empty batch is refused first
Prepare(batch) ==
    IF batch = <<>> THEN Reject("InvalidInput") ELSE PrepareNonEmpty(batch)

set_controls ==
    /\ pc = "idle"
    /\ op' = "set_controls"
    /\ pc' = "done"
    /\ \E batch \in SeqsUpTo(Controls, MaxBatch) :
         LET plan == Prepare(batch) IN
         /\ ctrls' = batch
         /\ IF ~plan.submit
            THEN /\ result' = Err(plan.error)
                 /\ UNCHANGED trace
            ELSE \E res \in Responses :
                   /\ trace' = Append(trace, Exchange("VIDIOC_S_EXT_CTRLS", plan.request, res, NoOut))
                   /\ result' = IF res = "Ok" THEN Ok(Unit) ELSE Err(OsError(res))
    /\ UNCHANGED <<v4l2_ctrl, controls, control, items, menu_i, index, desc, collected>>
    /\ UNCHANGED <<call, lifecycle>>

-----------------------------------------------------------------------------
(* enum_inputs, enum_outputs, enum_entities: a scan over (0..) collected    *)
(* into io::Result<Vec<_>>                                                 *)

ScanYield_NoSentinel(res) ==
    IF res = "Ok" THEN "SomeOk" ELSE "SomeErr"

ScanYield_SwallowsAll(res) ==
    IF res = "Ok" THEN "SomeOk" ELSE "None"

\* lines 326-331 (and 386-391, media/device.rs 54-60): what the scan closure
\* yields for the driver's answer; "None" ends the scan
ScanYield(res) ==
    IF res = "Ok" THEN "SomeOk"
    ELSE IF ErrorKind(res) = "InvalidInput" THEN "None"
    ELSE "SomeErr"

\* collect::<io::Result<Vec<_>>>(): the first Err is the result and no
\* further element is taken; the end of the scan gives Ok of what was taken
CollectDone(yield) == yield # "SomeOk"

CollectResult(yield, acc, res) ==
    IF yield = "SomeErr" THEN Err(OsError(res)) ELSE Ok(acc)

\* what the driver may report about an input or output
IoTypes == {"TUNER", "CAMERA"}

enum_inputs_call ==
    /\ pc = "idle"
    /\ op' = "enum_inputs"
    /\ pc' = "scan_io"
    /\ index' = 0
    /\ collected' = <<>>
    /\ UNCHANGED <<trace, result, v4l2_ctrl, controls, control, items, menu_i, ctrls, desc>>
    /\ UNCHANGED <<call, lifecycle>>

enum_outputs_call ==
    /\ pc = "idle"
    /\ op' = "enum_outputs"
    /\ pc' = "scan_io"
    /\ index' = 0
    /\ collected' = <<>>
    /\ UNCHANGED <<trace, result, v4l2_ctrl, controls, control, items, menu_i, ctrls, desc>>
    /\ UNCHANGED <<call, lifecycle>>

IoCode == IF op = "enum_inputs" THEN "VIDIOC_ENUMINPUT" ELSE "VIDIOC_ENUMOUTPUT"

\* one element of the scan of enum_inputs / enum_outputs, taken by collect
enum_io_next ==
    /\ pc = "scan_io"
    /\ \E res \in Responses :
         /\ res = "Ok" => NumOk(IoCode) < MaxItems
         /\ \E t \in (IF res = "Ok" THEN IoTypes ELSE {"-"}) :
              LET out   == IF res = "Ok" THEN [index |-> index, type_ |-> t] ELSE NoOut
                  yield == ScanYield(res)
              IN
              /\ trace' = Append(trace, Exchange(IoCode, [index |-> index], res, out))
              /\ IF CollectDone(yield)
                 THEN /\ pc' = "done"
                      /\ result' = CollectResult(yield, collected, res)
                      /\ UNCHANGED <<index, collected>>
                 ELSE /\ collected' = Push(collected, out)
                      /\ index' = index + 1
                      /\ UNCHANGED <<pc, result>>
    /\ UNCHANGED <<op, v4l2_ctrl, controls, control, items, menu_i, ctrls, desc>>
    /\ UNCHANGED <<call, lifecycle>>

MEDIA_ENT_ID_FLAG_NEXT == U32(32768, 0)

\* mem::zeroed() media_entity_desc
ZeroedEntity == [id |-> Zero32, type_ |-> "MEDIA_ENT_F_UNKNOWN", pads |-> 0, links |-> 0,
                 major |-> 0, minor |-> 0]

EntityDescRaw(id, type_, pads, links, major, minor) ==
    [id |-> id, type_ |-> type_, pads |-> pads, links |-> links, major |-> major, minor |-> minor]

\* what the driver may write into the media_entity_desc on success
DriverEntities ==
    { EntityDescRaw(U32(0, 1), "MEDIA_ENT_F_CAM_SENSOR", 1, 1, 0, 0),
      EntityDescRaw(U32(0, 2), "MEDIA_ENT_F_IO_V4L", 1, 1, 81, 0),
      EntityDescRaw(U32(0, 3), "MEDIA_ENT_F_V4L2_SUBDEV_UNKNOWN", 2, 2, 0, 0),
      EntityDescRaw(U32(0, 4), "MEDIA_ENT_F_UNKNOWN", 0, 0, 0, 0),
      EntityDescRaw(U32(0, 5), "MEDIA_ENT_F_FLASH", 1, 0, 0, 0) }

\* media/entity.rs 67-80: the classification by function code; any other
\* code reaches todo!()
EntityTypeOf_CatchAll(d) ==
    CASE d.type_ = "MEDIA_ENT_F_V4L2_SUBDEV_UNKNOWN" -> [tag |-> "Subdev"]
      [] d.type_ = "MEDIA_ENT_F_IO_V4L"              -> [tag |-> "Dev", major |-> d.major, minor |-> d.minor]
      [] d.type_ = "MEDIA_ENT_F_CAM_SENSOR"          -> [tag |-> "Camera"]
      [] OTHER                                       -> [tag |-> "Unknown"]

EntityTypeOf(d) ==
    CASE d.type_ = "MEDIA_ENT_F_UNKNOWN"             -> [tag |-> "Unknown"]
      [] d.type_ = "MEDIA_ENT_F_V4L2_SUBDEV_UNKNOWN" -> [tag |-> "Subdev"]
      [] d.type_ = "MEDIA_ENT_F_IO_V4L"              -> [tag |-> "Dev", major |-> d.major, minor |-> d.minor]
      [] d.type_ = "MEDIA_ENT_F_CAM_SENSOR"          -> [tag |-> "Camera"]
      [] OTHER                                       -> [tag |-> "todo!"]

\* impl From<media_entity_desc> for EntityDesc
EntityDescFrom(d) ==
    [id |-> d.id, type_ |-> d.type_, entity_type |-> EntityTypeOf(d),
     pads |-> d.pads, links |-> d.links]

\* media/device.rs 47: the NEXT flag is OR'ed into the carried id
NextEntityId_NoFlag(id) == id

NextEntityId(id) == Or32(id, MEDIA_ENT_ID_FLAG_NEXT)

enum_entities_call ==
    /\ pc = "idle"
    /\ op' = "enum_entities"
    /\ pc' = "scan_entities"
    /\ desc' = ZeroedEntity
    /\ collected' = <<>>
    /\ UNCHANGED <<trace, result, v4l2_ctrl, controls, control, items, menu_i, ctrls, index>>
    /\ UNCHANGED <<call, lifecycle>>

\* one element of the scan of enum_entities, taken by collect
enum_entities_next ==
    /\ pc = "scan_entities"
    /\ LET id == NextEntityId(desc.id) IN
       \E res \in Responses :
         /\ res = "Ok" => NumOk("MEDIA_IOC_ENUM_ENTITIES") < MaxItems
         /\ \E out \in (IF res = "Ok" THEN DriverEntities ELSE {NoOut}) :
              LET yield == ScanYield(res) IN
              /\ trace' = Append(trace, Exchange("MEDIA_IOC_ENUM_ENTITIES", [id |-> id], res, out))
              /\ IF CollectDone(yield)
                 THEN /\ pc' = "done"
                      /\ result' = CollectResult(yield, collected, res)
                      /\ desc' = [desc EXCEPT !.id = id]
                      /\ UNCHANGED collected
                 ELSE IF EntityTypeOf(out).tag = "todo!"
                 THEN /\ pc' = "done"
                      /\ result' = Panicked
                      /\ desc' = out
                      /\ UNCHANGED collected
                 ELSE /\ collected' = Push(collected, EntityDescFrom(out))
                      /\ desc' = out
                      /\ UNCHANGED <<pc, result>>
    /\ UNCHANGED <<op, v4l2_ctrl, controls, control, items, menu_i, ctrls, index>>
    /\ UNCHANGED <<call, lifecycle>>

-----------------------------------------------------------------------------
(* The descriptor handle (src/device.rs 476-527).  A Device holds an       *)
(* Arc<Handle>; cloning the Device or calling Device::handle() adds a      *)
(* reference to the same Handle, and the values may be moved to other      *)
(* threads and dropped there in any order.  Dropping an Arc decrements     *)
(* the strong count atomically and runs Handle's Drop only in the thread   *)
(* that saw the count go from one to zero.                                 *)

Threads == {"t1", "t2"}

\* the thread that called Device::with_path
Opener == "t1"

Owns(devices, handles) == [device |-> devices, handle |-> handles]

RECURSIVE Held(_)
Held(ts) ==
    IF ts = {} THEN 0
    ELSE LET t == CHOOSE x \in ts : TRUE
         IN refs[t].device + refs[t].handle + Held(ts \ {t})

\* v4l2::close is close(2): it succeeds or fails with an errno
CloseResponses == {"Ok", "EIO"}

\* Arc<Handle>: the Handle is dropped by the release that saw the count 1
LastReference_Every(prev) == TRUE

LastReference(prev) == prev = 1

\* #[derive(Clone)] on Device: the clone is handed to thread u
device_clone ==
    /\ Held(Threads) < MaxRefs
    /\ \E t \in Threads, u \in Threads :
        /\ dropping[t] = 0
        /\ refs[t].device > 0
        /\ strong' = strong + 1
        /\ refs' = [refs EXCEPT ![u] = Owns(refs[u].device + 1, refs[u].handle)]
    /\ UNCHANGED <<dropping, closes>>
    /\ UNCHANGED <<op, pc, trace, result, call, scans>>

\* Device::handle(): an Arc<Handle> clone, handed to thread u
handle ==
    /\ Held(Threads) < MaxRefs
    /\ \E t \in Threads, u \in Threads :
        /\ dropping[t] = 0
        /\ refs[t].device > 0
        /\ strong' = strong + 1
        /\ refs' = [refs EXCEPT ![u] = Owns(refs[u].device, refs[u].handle + 1)]
    /\ UNCHANGED <<dropping, closes>>
    /\ UNCHANGED <<op, pc, trace, result, call, scans>>

\* a thread drops one of its Device values: the Arc's count is decremented
device_drop ==
    /\ \E t \in Threads :
        /\ dropping[t] = 0
        /\ refs[t].device > 0
        /\ refs' = [refs EXCEPT ![t] = Owns(refs[t].device - 1, refs[t].handle)]
        /\ dropping' = [dropping EXCEPT ![t] = strong]
        /\ strong' = strong - 1
    /\ UNCHANGED closes
    /\ UNCHANGED <<op, pc, trace, result, call, scans>>

\* a thread drops one of its Arc<Handle> values
handle_drop ==
    /\ \E t \in Threads :
        /\ dropping[t] = 0
        /\ refs[t].handle > 0
        /\ refs' = [refs EXCEPT ![t] = Owns(refs[t].device, refs[t].handle - 1)]
        /\ dropping' = [dropping EXCEPT ![t] = strong]
        /\ strong' = strong - 1
    /\ UNCHANGED closes
    /\ UNCHANGED <<op, pc, trace, result, call, scans>>

\* line 525: Result::unwrap panics on the Err of a failed close
UnwrapPanics_Swallowed(res) == FALSE

UnwrapPanics(res) == res # "Ok"

\* the rest of the Arc's drop: Drop for Handle runs if this was the last
\* reference, and closes the descriptor
Handle_drop ==
    /\ \E t \in Threads :
        /\ dropping[t] # 0
        /\ dropping' = [dropping EXCEPT ![t] = 0]
        /\ IF LastReference(dropping[t])
           THEN \E res \in CloseResponses :
                    closes' = Append(closes,
                                     [thread |-> t, res |-> res, panic |-> UnwrapPanics(res)])
           ELSE UNCHANGED closes
    /\ UNCHANGED <<refs, strong>>
    /\ UNCHANGED <<op, pc, trace, result, call, scans>>

-----------------------------------------------------------------------------
(* Media links (src/media/link.rs) and Device::setup_link                  *)
(* (src/media/device.rs).                                                  *)

NoArg == [none |-> TRUE]

\* a & !b on 32 bits
Remove32(a, b) == U32(a.hi - BitAnd(a.hi, b.hi), a.lo - BitAnd(a.lo, b.lo))

PadFlags_SINK == U32(0, 1)

PadFlags_SOURCE == U32(0, 2)

LinkFlags_ENABLED == U32(0, 1)

LinkFlags_IMMUTABLE == U32(0, 2)

LinkFlags_DYNAMIC == U32(0, 4)

\* MEDIA_LNK_FL_INTERFACE_LINK, one of the link-type bits 28..31 that
\* from_bits_retain keeps in the flags
LinkFlags_INTERFACE_LINK == U32(4096, 0)

\* bitflags: flags.contains(flag)
Contains(flags, flag) == And32(flags, flag) = flag

\* bitflags: flags.set(flag, value) inserts the flag or removes it
SetFlag(flags, flag, value) ==
    IF value THEN Or32(flags, flag) ELSE Remove32(flags, flag)

Pad(entity, idx, flags) == [entity |-> entity, index |-> idx, flags |-> flags]

Link(source, sink, flags) == [source |-> source, sink |-> sink, flags |-> flags]

\* the kernel's media_pad_desc and media_link_desc
PadDescRaw(entity, idx, flags) ==
    [entity |-> entity, index |-> idx, flags |-> flags, reserved |-> <<0, 0>>]

LinkDescRaw(source, sink, flags) ==
    [source |-> source, sink |-> sink, flags |-> flags, reserved |-> <<0, 0>>]

\* From<media_pad_desc> for Pad
PadFrom(d) == Pad(d.entity, d.index, d.flags)

\* From<media_link_desc> for Link: every flag bit is retained
LinkFrom(d) == Link(PadFrom(d.source), PadFrom(d.sink), d.flags)

\* Into<media_link_desc> for Link, the inverse conversion
LinkDescFrom(link) ==
    LinkDescRaw(PadDescRaw(link.source.entity, link.source.index, link.source.flags),
                PadDescRaw(link.sink.entity, link.sink.index, link.sink.flags),
                link.flags)

\* the links a caller may hold: two pad pairs, every combination of the
\* three flags, data links and interface links
Links ==
    { Link(Pad(U32(0, 1), 0, PadFlags_SOURCE), Pad(U32(0, s), 0, PadFlags_SINK),
           U32(h, l)) : s \in {2, 3}, h \in {0, 4096}, l \in 0..7 }

LinkResponses == {"Ok", "EBUSY", "EINVAL"}

\* media/device.rs 103-106: the assertion that guards setup_link
Modifiable_Unchecked(link) == TRUE

Modifiable(link) == ~Contains(link.flags, LinkFlags_IMMUTABLE)

\* media/device.rs 113: only the ENABLED bit of the link changes
WithEnabled_Overwrites(link, enabled) ==
    Link(link.source, link.sink,
         IF enabled THEN LinkFlags_ENABLED ELSE Zero32)

WithEnabled(link, enabled) ==
    Link(link.source, link.sink, SetFlag(link.flags, LinkFlags_ENABLED, enabled))

setup_link ==
    /\ pc = "idle"
    /\ \E link \in Links, enabled \in BOOLEAN :
        /\ op' = "setup_link"
        /\ call' = [link |-> link, enabled |-> enabled]
        /\ pc' = "done"
        /\ IF ~Modifiable(link)
           THEN /\ result' = Panicked
                /\ UNCHANGED trace
           ELSE \E res \in LinkResponses :
                /\ trace' = Append(trace,
                       Exchange("MEDIA_IOC_SETUP_LINK",
                                LinkDescFrom(WithEnabled(link, enabled)), res, NoOut))
                /\ result' = IF res = "Ok" THEN Ok(Unit) ELSE Err(OsError(res))
    /\ UNCHANGED <<scans, lifecycle>>

-----------------------------------------------------------------------------
(* control: reading one control value (src/device.rs 164-202).  The value  *)
(* comes back in the 8-byte union of v4l2_ext_control, kept here as its     *)
(* two 32-bit words: `value` (i32) is the low word w0, `value64` is both.   *)

Union64(w1, w0) == [w1 |-> w1, w0 |-> w0]

\* a 64-bit integer, as the two words of its two's complement pattern
I64(w1, w0) == [w1 |-> w1, w0 |-> w0]

Ones32 == U32(65535, 65535)

\* __bindgen_anon_1.value64
Value64(u) == I64(u.w1, u.w0)

\* __bindgen_anon_1.value: the i32 in the low four bytes
Value32(u) == u.w0

\* `value as i64` for an i32: the sign bit fills the upper word
AsI64_ZeroExtends(w) == I64(Zero32, w)

AsI64(w) == I64(IF w.hi >= 32768 THEN Ones32 ELSE Zero32, w)

\* `value == 1` for an i32
IsOne(w) == w = U32(0, 1)

\* what the driver may leave in the union
RawUnions ==
    { Union64(Zero32, Zero32),          \* 0
      Union64(Zero32, U32(0, 1)),       \* 1
      Union64(Zero32, U32(0, 2)),       \* 2
      Union64(Zero32, U32(1, 1)),       \* 65537
      Union64(Ones32, Ones32),          \* -1 in 64 bits
      Union64(Zero32, Ones32),          \* -1 in 32 bits, upper word untouched
      Union64(Zero32, U32(32768, 0)),   \* i32::MIN
      Union64(U32(0, 1), Zero32),       \* 2^32
      Union64(U32(0, 1), U32(0, 1)) }   \* 2^32 + 1

ControlTypes ==
    {"Integer", "Boolean", "Menu", "Integer64",
     "Button", "CtrlClass", "String", "IntegerMenu", "U8"}

\* the fields of a Description that control() reads
Descriptions == { [id |-> id, typ |-> typ] : id \in SetIds, typ \in ControlTypes }

NoValue == [some |-> FALSE, value |-> Value("None", 0, FALSE, <<>>)]

SomeValue(v) == [some |-> TRUE, value |-> v]

\* lines 182-198: the match on desc.typ
DecodeValue_FallsBackToInteger(typ, u) ==
    CASE typ = "Integer64"           -> SomeValue(Value("Integer", Value64(u), FALSE, <<>>))
      [] typ \in {"Integer", "Menu"} -> SomeValue(Value("Integer", AsI64(Value32(u)), FALSE, <<>>))
      [] typ = "Boolean"             -> SomeValue(Value("Boolean", 0, IsOne(Value32(u)), <<>>))
      [] OTHER                       -> SomeValue(Value("Integer", AsI64(Value32(u)), FALSE, <<>>))

DecodeValue(typ, u) ==
    CASE typ = "Integer64"           -> SomeValue(Value("Integer", Value64(u), FALSE, <<>>))
      [] typ \in {"Integer", "Menu"} -> SomeValue(Value("Integer", AsI64(Value32(u)), FALSE, <<>>))
      [] typ = "Boolean"             -> SomeValue(Value("Boolean", 0, IsOne(Value32(u)), <<>>))
      [] OTHER                       -> NoValue

\* lines 167-175: one zeroed v4l2_ext_control carrying only the id
GetRequest(d) ==
    [count |-> 1, which |-> Zero32,
     controls |-> <<[id |-> d.id, size |-> 0, union |-> Union64(Zero32, Zero32)]>>]

\* lines 182-201, after a successful request
ControlResult(d, u) ==
    LET v == DecodeValue(d.typ, u)
    IN  IF v.some THEN Ok([id |-> d.id, value |-> v.value])
        ELSE Err(NewError("Other"))

control_get_ChecksTypeFirst ==
    /\ pc = "idle"
    /\ \E d \in Descriptions :
        /\ op' = "control"
        /\ call' = [desc |-> d]
        /\ pc' = "done"
        /\ IF ~DecodeValue(d.typ, Union64(Zero32, Zero32)).some
           THEN /\ result' = Err(NewError("Other"))
                /\ UNCHANGED trace
           ELSE \E res \in Responses :
                \E out \in (IF res = "Ok" THEN RawUnions ELSE {NoOut}) :
                  /\ trace' = Append(trace, Exchange("VIDIOC_G_EXT_CTRLS", GetRequest(d), res, out))
                  /\ result' = IF res = "Ok" THEN ControlResult(d, out) ELSE Err(OsError(res))
    /\ UNCHANGED <<scans, lifecycle>>

control_get ==
    /\ pc = "idle"
    /\ \E d \in Descriptions, res \in Responses :
       \E out \in (IF res = "Ok" THEN RawUnions ELSE {NoOut}) :
        /\ op' = "control"
        /\ call' = [desc |-> d]
        /\ pc' = "done"
        /\ trace' = Append(trace, Exchange("VIDIOC_G_EXT_CTRLS", GetRequest(d), res, out))
        /\ result' = IF res = "Ok" THEN ControlResult(d, out) ELSE Err(OsError(res))
    /\ UNCHANGED <<scans, lifecycle>>

(* Device::enum_links (src/media/device.rs 66-90) *)

ZeroedPadDesc == PadDescRaw(Zero32, 0, Zero32)

ZeroedLinkDesc == LinkDescRaw(ZeroedPadDesc, ZeroedPadDesc, Zero32)

\* vec![zeroed; n]
Zeroed(n, x) == [i \in 1..n |-> x]

\* the entity descriptions a caller may pass: entities the driver
\* enumerated, with every pad and link count up to the bound
LinkEntities ==
    { [EntityDescFrom(d) EXCEPT !.pads = p, !.links = l] :
        d \in {e \in DriverEntities : e.id \in {U32(0, 1), U32(0, 3)}},
        p \in 1..2, l \in 0..MaxLinks }

\* what the driver may write into one cell of the link buffer; a cell it
\* does not write stays zeroed
DriverLinks ==
    { ZeroedLinkDesc,
      LinkDescRaw(PadDescRaw(U32(0, 1), 0, PadFlags_SOURCE),
                  PadDescRaw(U32(0, 3), 0, PadFlags_SINK), U32(0, 3)),
      LinkDescRaw(PadDescRaw(U32(0, 3), 1, PadFlags_SOURCE),
                  PadDescRaw(U32(0, 2), 0, PadFlags_SINK), U32(4096, 0)) }

\* lines 68-69: the receiving buffers
PadBuffer(entity) == Zeroed(entity.pads, ZeroedPadDesc)

LinkBuffer_SizedByPads(entity) == Zeroed(entity.pads, ZeroedLinkDesc)

LinkBuffer(entity) == Zeroed(entity.links, ZeroedLinkDesc)

\* lines 70-75: media_links_enum
LinksEnum(entity) ==
    [entity |-> entity.id, pads |-> PadBuffer(entity), links |-> LinkBuffer(entity),
     reserved |-> <<0, 0, 0, 0>>]

\* line 89: links.into_iter().map(|l| l.into()).collect()
IntoLinks(buffer) == [i \in 1..Len(buffer) |-> LinkFrom(buffer[i])]

enum_links ==
    /\ pc = "idle"
    /\ \E entity \in LinkEntities, res \in Responses :
       LET request == LinksEnum(entity) IN
       \E out \in (IF res = "Ok"
                   THEN [1..Len(request.links) -> DriverLinks]
                   ELSE {request.links}) :
        /\ op' = "enum_links"
        /\ call' = [entity |-> entity]
        /\ pc' = "done"
        /\ trace' = Append(trace, Exchange("MEDIA_IOC_ENUM_LINKS", request, res, out))
        /\ result' = IF res = "Ok" THEN Ok(IntoLinks(out)) ELSE Err(OsError(res))
    /\ UNCHANGED <<scans, lifecycle>>

-----------------------------------------------------------------------------
(* The remaining single-request operations: query_caps, input, set_input,  *)
(* output, set_output (src/device.rs), device_info (src/media/device.rs),  *)
(* Request::queue and Request::reinit (src/media/request.rs).  Each makes  *)
(* one v4l2::ioctl call and returns its error through `?` or directly.     *)

\* MaybeUninit::uninit(): the request carries nothing the driver reads
Uninit == [uninit |-> TRUE]

\* std::ptr::null_mut()
NullPtr == [null |-> TRUE]

\* the common shape: one ioctl, then Ok(value) or the OS error
Issue(name, code, a, request, res, out, value) ==
    /\ op' = name
    /\ call' = a
    /\ pc' = "done"
    /\ trace' = Append(trace, Exchange(code, request, res, out))
    /\ result' = IF res = "Ok" THEN Ok(value) ELSE Err(OsError(res))

\* what the driver may report as v4l2_capability
DriverCaps ==
    { [driver |-> "uvcvideo", version |-> U32(6, 2560), capabilities |-> U32(33824, 1)],
      [driver |-> "vivid", version |-> U32(5, 3843), capabilities |-> U32(34080, 3)] }

CapabilitiesFrom(caps) ==
    [driver |-> caps.driver,
     version |-> <<caps.version.hi % 256, (caps.version.lo \div 256) % 256,
                   caps.version.lo % 256>>,
     capabilities |-> caps.capabilities]

query_caps ==
    /\ pc = "idle"
    /\ \E res \in Responses :
       \E out \in (IF res = "Ok" THEN DriverCaps ELSE {Uninit}) :
          Issue("query_caps", "VIDIOC_QUERYCAP", NoArg, Uninit, res, out,
                IF res = "Ok" THEN CapabilitiesFrom(out) ELSE out)
    /\ UNCHANGED <<scans, lifecycle>>

\* input and output indices of the device
IoIndices == 0..1

input ==
    /\ pc = "idle"
    /\ \E res \in Responses :
       \E out \in (IF res = "Ok" THEN IoIndices ELSE {0}) :
          Issue("input", "VIDIOC_G_INPUT", NoArg, Uninit, res, [index |-> out], out)
    /\ UNCHANGED <<scans, lifecycle>>

set_input_Retrying ==
    /\ \/ pc = "idle"
       \/ /\ op = "set_input"
          /\ trace[Len(trace)].res # "Ok"
          /\ Len(trace) < 2
    /\ \E i \in IoIndices, res \in Responses :
          Issue("set_input", "VIDIOC_S_INPUT", [index |-> i], [index |-> i], res,
                NoOut, Unit)
    /\ UNCHANGED <<scans, lifecycle>>

set_input ==
    /\ pc = "idle"
    /\ \E i \in IoIndices, res \in Responses :
          Issue("set_input", "VIDIOC_S_INPUT", [index |-> i], [index |-> i], res,
                NoOut, Unit)
    /\ UNCHANGED <<scans, lifecycle>>

output ==
    /\ pc = "idle"
    /\ \E res \in Responses :
       \E out \in (IF res = "Ok" THEN IoIndices ELSE {0}) :
          Issue("output", "VIDIOC_G_OUTPUT", NoArg, Uninit, res, [index |-> out], out)
    /\ UNCHANGED <<scans, lifecycle>>

set_output ==
    /\ pc = "idle"
    /\ \E i \in IoIndices, res \in Responses :
          Issue("set_output", "VIDIOC_S_OUTPUT", [index |-> i], [index |-> i], res,
                NoOut, Unit)
    /\ UNCHANGED <<scans, lifecycle>>

\* media/mod.rs 32-40: Version from the packed u32
VersionFrom_Unmasked(v) ==
    [major |-> v.hi, minor |-> v.lo \div 256, patch |-> v.lo % 256]

VersionFrom(v) ==
    [major |-> v.hi % 256, minor |-> (v.lo \div 256) % 256, patch |-> v.lo % 256]

\* packed versions a driver may report: 0.0.0, 5.1.2 (0x00050102),
\* 6.10.0, 255.255.255, each also with bits 24-31 set in part or in full
PackedVersions ==
    { U32(top * 256 + major, lo) :
        top \in {0, 1, 255}, major \in {0, 5, 6, 255}, lo \in {0, 258, 2560, 65535} }

\* what the driver may report as media_device_info
DriverInfos ==
    { [driver |-> "uvcvideo", media_version |-> m,
       hw_revision |-> U32(0, 256), driver_version |-> d] :
        m \in PackedVersions, d \in {U32(0, 0), U32(6, 2561), U32(65285, 258)} }

\* media/device.rs 146-170
DeviceInfoFrom(info) ==
    [driver |-> info.driver,
     media_version |-> VersionFrom(info.media_version),
     hw_revision |-> info.hw_revision,
     driver_version |-> VersionFrom(info.driver_version)]

device_info ==
    /\ pc = "idle"
    /\ \E res \in Responses :
       \E out \in (IF res = "Ok" THEN DriverInfos ELSE {Uninit}) :
          Issue("device_info", "MEDIA_IOC_DEVICE_INFO", NoArg, Uninit, res, out,
                IF res = "Ok" THEN DeviceInfoFrom(out) ELSE out)
    /\ UNCHANGED <<scans, lifecycle>>

\* a request may also be refused because it is already queued
RequestResponses == Responses \cup {"EBUSY"}

Request_queue ==
    /\ pc = "idle"
    /\ \E res \in RequestResponses :
          Issue("Request::queue", "MEDIA_REQUEST_IOC_QUEUE", NoArg, NullPtr, res,
                NoOut, Unit)
    /\ UNCHANGED <<scans, lifecycle>>

Request_reinit ==
    /\ pc = "idle"
    /\ \E res \in RequestResponses :
          Issue("Request::reinit", "MEDIA_REQUEST_IOC_REINIT", NoArg, NullPtr, res,
                NoOut, Unit)
    /\ UNCHANGED <<scans, lifecycle>>

-----------------------------------------------------------------------------

Init ==
    /\ op = "idle"
    /\ pc = "idle"
    /\ trace = <<>>
    /\ result = NoResult
    /\ v4l2_ctrl = ZeroedCtrl
    /\ controls = <<>>
    /\ control = DescriptionFrom(ZeroedCtrl)
    /\ items = <<>>
    /\ menu_i = 0
    /\ ctrls = <<>>
    /\ index = 0
    /\ desc = ZeroedEntity
    /\ collected = <<>>
    /\ call = NoArg
    /\ refs = [t \in Threads |-> IF t = Opener THEN Owns(1, 0) ELSE Owns(0, 0)]
    /\ strong = 1
    /\ dropping = [t \in Threads |-> 0]
    /\ closes = <<>>

\* query_controls
NextQC == query_controls_call \/ query_ext_ctrl \/ query_menu

SpecQC == Init /\ [][NextQC]_vars

\* set_controls
NextSC == set_controls

SpecSC == Init /\ [][NextSC]_vars

\* enum_inputs, enum_outputs, enum_entities
NextEnum ==
    \/ enum_inputs_call
    \/ enum_outputs_call
    \/ enum_io_next
    \/ enum_entities_call
    \/ enum_entities_next

SpecEnum == Init /\ [][NextEnum]_vars

\* the shared handle: clones and drops in any interleaving
NextHandle ==
    \/ device_clone
    \/ handle
    \/ device_drop
    \/ handle_drop
    \/ Handle_drop

SpecHandle == Init /\ [][NextHandle]_vars

\* control
NextControl == control_get

SpecControl == Init /\ [][NextControl]_vars

\* media links
NextLink == setup_link \/ enum_links

SpecLink == Init /\ [][NextLink]_vars

\* every operation that talks to the device once
NextSingle ==
    \/ query_caps
    \/ control_get
    \/ set_controls
    \/ input
    \/ set_input
    \/ output
    \/ set_output
    \/ device_info
    \/ enum_links
    \/ setup_link
    \/ Request_queue
    \/ Request_reinit

SpecSingle == Init /\ [][NextSingle]_vars

\* device_info
NextInfo == device_info

SpecInfo == Init /\ [][NextInfo]_vars

Next == NextQC \/ NextEnum \/ NextHandle \/ NextSingle

Spec == Init /\ [][Next]_vars

-----------------------------------------------------------------------------
(* Properties of query_controls *)

\* the query-next exchanges of the trace, in the order they were issued
QueryNext == SelectSeq(trace, LAMBDA e : e.code = "VIDIOC_QUERY_EXT_CTRL")

\* the driver answered k >= 1 query-next requests successfully and the next
\* one with invalid-argument
AnsweredThenEinval ==
    /\ Len(QueryNext) >= 2
    /\ \A j \in 1..(Len(QueryNext) - 1) : QueryNext[j].res = "Ok"
    /\ QueryNext[Len(QueryNext)].res = "EINVAL"

\* the description of a control carries what the driver wrote
Describes(d, out) ==
    /\ d.id = out.id
    /\ d.typ = out.type
    /\ d.minimum = out.minimum
    /\ d.maximum = out.maximum
    /\ d.step = out.step

\* C1: when the driver answers k >= 1 successive query-next requests
\* successfully and then answers invalid-argument, query_controls has returned
\* Ok with exactly k descriptions, the j-th describing the j-th control the
\* driver returned, and the invalid-argument answer is the last exchange: no
\* request follows it.
C1_SuccessPath ==
    (op = "query_controls" /\ AnsweredThenEinval) =>
        LET k == Len(QueryNext) - 1 IN
        /\ pc = "done"
        /\ result.tag = "Ok"
        /\ Len(result.value) = k
        /\ \A j \in 1..k : Describes(result.value[j], QueryNext[j].out)
        /\ trace[Len(trace)].code = "VIDIOC_QUERY_EXT_CTRL"
        /\ trace[Len(trace)].res = "EINVAL"

C1_Witness ==
    /\ op = "query_controls"
    /\ AnsweredThenEinval
    /\ Len(QueryNext) = 3
    /\ result.tag = "Ok"
    /\ result.value[1].id # result.value[2].id

\* C2: when the very first query-next request fails with invalid-argument,
\* query_controls returns that error (kind InvalidInput, errno EINVAL) and
\* not a list.
C2_FirstCallFailure ==
    (op = "query_controls" /\ Len(QueryNext) >= 1 /\ QueryNext[1].res = "EINVAL") =>
        /\ pc = "done"
        /\ result.tag = "Err"
        /\ result.error.kind = "InvalidInput"
        /\ result.error.os = "EINVAL"

C2_Witness ==
    /\ op = "query_controls"
    /\ Len(QueryNext) = 1
    /\ QueryNext[1].res = "EINVAL"
    /\ result.tag = "Err"
    /\ result.error.kind = "InvalidInput"

\* the driver exposes no control at all: it has nothing to return to the
\* first query-next request and answers it with invalid-argument
ZeroControls ==
    /\ op = "query_controls"
    /\ pc = "done"
    /\ Len(trace) = 1
    /\ trace[1].code = "VIDIOC_QUERY_EXT_CTRL"
    /\ trace[1].res = "EINVAL"

\* C3 as stated: query_controls on a device exposing zero controls yields Ok
\* with an empty list.
C3_AsStated ==
    ZeroControls => (result.tag = "Ok" /\ result.value = <<>>)

\* C3, amended: query_controls on a device exposing zero controls returns the
\* driver's invalid-argument error after that single request, and
\* query_controls never returns Ok with an empty list.
C3_ZeroControlsIsAnError ==
    /\ ZeroControls => (result.tag = "Err" /\ result.error = OsError("EINVAL"))
    /\ (op = "query_controls" /\ result.tag = "Ok") => Len(result.value) >= 1

C3_Witness ==
    /\ ZeroControls
    /\ result.tag = "Err"
    /\ controls = <<>>

\* C9: a query-next answer that is an error of any kind other than
\* invalid-argument, at any position, aborts the enumeration: it is the last
\* exchange, and query_controls has returned that error, which carries none
\* of the controls collected so far.
C9_OtherErrorAborts ==
    op = "query_controls" =>
        \A p \in 1..Len(trace) :
            (/\ trace[p].code = "VIDIOC_QUERY_EXT_CTRL"
             /\ trace[p].res # "Ok"
             /\ ErrorKind(trace[p].res) # "InvalidInput") =>
                /\ p = Len(trace)
                /\ pc = "done"
                /\ result = Err(OsError(trace[p].res))

C9_Witness ==
    /\ op = "query_controls"
    /\ Len(controls) = 2
    /\ trace[Len(trace)].code = "VIDIOC_QUERY_EXT_CTRL"
    /\ trace[Len(trace)].res = "EIO"
    /\ result.tag = "Err"

-----------------------------------------------------------------------------
(* Properties of set_controls *)

\* the class of a control of the batch, read off its id: the upper 16 bits
ClassBits(c) == c.id.hi

MixedBatch == \E j \in 1..Len(ctrls) : ClassBits(ctrls[j]) # ClassBits(ctrls[1])

\* C4: set_controls with an empty list fails with InvalidInput and issues no
\* device request.
C4_EmptyBatchRejected ==
    (op = "set_controls" /\ ctrls = <<>>) =>
        /\ result.tag = "Err"
        /\ result.error.kind = "InvalidInput"
        /\ trace = <<>>

C4_Witness ==
    /\ op = "set_controls"
    /\ pc = "done"
    /\ ctrls = <<>>
    /\ result.tag = "Err"

\* C5: set_controls with a batch in which some control, at any position, has
\* a class different from the class of the first control fails with
\* InvalidInput and issues no device request.
C5_MixedBatchRejected ==
    (op = "set_controls" /\ MixedBatch) =>
        /\ result.tag = "Err"
        /\ result.error.kind = "InvalidInput"
        /\ trace = <<>>

C5_Witness ==
    /\ op = "set_controls"
    /\ Len(ctrls) = 3
    /\ ClassBits(ctrls[2]) = ClassBits(ctrls[1])
    /\ ClassBits(ctrls[3]) # ClassBits(ctrls[1])
    /\ result.tag = "Err"
    /\ trace = <<>>

\* the j-th control of the request carries the j-th control of the batch
Carries(wire, c) ==
    /\ wire.id = c.id
    /\ c.value.tag = "Integer" => wire.value64 = c.value.int
    /\ c.value.tag = "Boolean" => (wire.value64 = 1) = c.value.bool
    /\ wire.buf = c.value.buf

\* C6: set_controls with a non-empty batch confined to one class issues
\* exactly one set-controls request; it carries all n controls in the
\* caller's order with count = n, its class selector `which` is the first
\* control's id with the lower 16 bits cleared, and set_controls returns what
\* that request returned.
C6_OneBatchedWrite ==
    (op = "set_controls" /\ ctrls # <<>> /\ ~MixedBatch) =>
        /\ Len(trace) = 1
        /\ trace[1].code = "VIDIOC_S_EXT_CTRLS"
        /\ trace[1].arg.count = Len(ctrls)
        /\ Len(trace[1].arg.controls) = Len(ctrls)
        /\ \A j \in 1..Len(ctrls) : Carries(trace[1].arg.controls[j], ctrls[j])
        /\ trace[1].arg.which = U32(ctrls[1].id.hi, 0)
        /\ trace[1].res = "Ok" => result = Ok(Unit)
        /\ trace[1].res # "Ok" => result = Err(OsError(trace[1].res))

C6_Witness ==
    /\ op = "set_controls"
    /\ Len(ctrls) = 3
    /\ ~MixedBatch
    /\ ctrls[1].id # ctrls[2].id
    /\ ctrls[1].id.lo # 0
    /\ Len(trace) = 1
    /\ trace[1].res = "Ok"
    /\ result.tag = "Ok"

-----------------------------------------------------------------------------
(* Properties of the enumerations *)

InputOutputScan == op \in {"enum_inputs", "enum_outputs"}

ProbeCode == IF op = "enum_inputs" THEN "VIDIOC_ENUMINPUT" ELSE "VIDIOC_ENUMOUTPUT"

\* C7: enum_inputs and enum_outputs probe the indices 0, 1, 2, .. in
\* ascending order; on a device with exactly N >= 0 inputs (outputs), whose
\* driver accepts 0..N-1 and answers invalid-argument for N, that answer ends
\* the scan and the result is Ok with the N entries of 0..N-1 in ascending
\* order (an empty list for N = 0).
C7_EnumStopsAtSentinel ==
    InputOutputScan =>
        /\ \A p \in 1..Len(trace) :
             /\ trace[p].code = ProbeCode
             /\ trace[p].arg.index = p - 1
        /\ \A p \in 1..Len(trace) :
             (trace[p].res = "EINVAL" /\ \A j \in 1..(p - 1) : trace[j].res = "Ok") =>
                /\ p = Len(trace)
                /\ pc = "done"
                /\ result.tag = "Ok"
                /\ Len(result.value) = p - 1
                /\ \A j \in 1..(p - 1) :
                     /\ result.value[j] = trace[j].out
                     /\ result.value[j].index = j - 1

C7_Witness ==
    /\ op = "enum_inputs"
    /\ Len(trace) = 3
    /\ trace[1].res = "Ok"
    /\ trace[2].res = "Ok"
    /\ trace[3].res = "EINVAL"
    /\ result.tag = "Ok"
    /\ Len(result.value) = 2

-----------------------------------------------------------------------------
(* Properties of the menu scan of query_controls *)

\* the descriptions query_controls returned, or has collected so far
Returned == IF result.tag = "Ok" THEN result.value ELSE controls

QueryNextPos ==
    SelectSeq([p \in 1..Len(trace) |-> p],
              LAMBDA p : trace[p].code = "VIDIOC_QUERY_EXT_CTRL")

\* the menu queries issued for the j-th control the driver returned
MenuScanOf(j) ==
    SubSeq(trace, QueryNextPos[j] + 1,
           IF j < Len(QueryNextPos) THEN QueryNextPos[j + 1] - 1 ELSE Len(trace))

\* minimum, minimum + step, minimum + 2*step, .. up to maximum
SteppedRange(mn, mx, st) ==
    IF mn > mx THEN <<>>
    ELSE [n \in 1..((mx - mn) \div st + 1) |-> mn + (n - 1) * st]

Indices(exchanges) == [n \in 1..Len(exchanges) |-> exchanges[n].arg.index]

\* C10: for every Menu or IntegerMenu control returned by query_controls,
\* every index of minimum, minimum+step, .. <= maximum was queried, in
\* ascending order and under the control's id, and the item list holds
\* exactly the indices the driver accepted, in that order; a rejected index
\* (whatever the error) is absent and does not end the operation.
C10_MenuItems ==
    op = "query_controls" =>
        /\ \A j \in 1..Len(Returned) :
             Returned[j].typ \in {"Menu", "IntegerMenu"} =>
                LET d        == Returned[j]
                    scan     == MenuScanOf(j)
                    range    == SteppedRange(d.minimum, d.maximum, d.step)
                    accepted == SelectSeq(scan, LAMBDA e : e.res = "Ok")
                IN
                /\ \A n \in 1..Len(scan) :
                     scan[n].code = "VIDIOC_QUERYMENU" /\ scan[n].arg.id = d.id
                /\ Indices(scan) = [n \in 1..Len(range) |-> U32(0, range[n])]
                /\ d.items.some
                /\ [n \in 1..Len(d.items.list) |-> d.items.list[n].index] = Indices(accepted)
        /\ (/\ trace # <<>>
            /\ trace[Len(trace)].code = "VIDIOC_QUERYMENU"
            /\ trace[Len(trace)].res # "Ok") =>
               (pc # "done" /\ result = NoResult)

C10_Witness ==
    /\ op = "query_controls"
    /\ result.tag = "Ok"
    /\ Len(result.value) = 2
    /\ result.value[1].typ = "Menu"
    /\ Len(MenuScanOf(1)) = 2
    /\ MenuScanOf(1)[1].res = "EIO"
    /\ MenuScanOf(1)[2].res = "Ok"
    /\ Len(result.value[1].items.list) = 1
    /\ result.value[1].items.list[1].index = U32(0, 2)

-----------------------------------------------------------------------------
(* Properties of setup_link *)

\* bit 1 of the flags word: the link is Immutable
ImmutableBit(flags) == (flags.lo \div 2) % 2 = 1

\* bit 0 of the flags word: the link is Enabled
EnabledBit(flags) == flags.lo % 2 = 1

SetupRequests == {p \in 1..Len(trace) : trace[p].code = "MEDIA_IOC_SETUP_LINK"}

\* C11: setup_link on a link whose flags include Immutable is rejected
\* before any device request is issued, whatever `enabled` is: the call
\* ends by the failed assertion with nothing sent, and no setup-link
\* request ever carries the Immutable flag.
C11_ImmutableLinkRejected ==
    /\ (op = "setup_link" /\ ImmutableBit(call.link.flags))
          => /\ pc = "done"
             /\ trace = <<>>
             /\ result = Panicked
    /\ \A p \in SetupRequests : ~ImmutableBit(trace[p].arg.flags)

\* an Immutable, disabled link that the caller asked to enable
C11_Witness ==
    /\ op = "setup_link"
    /\ pc = "done"
    /\ ImmutableBit(call.link.flags)
    /\ ~EnabledBit(call.link.flags)
    /\ call.enabled
    /\ result = Panicked
    /\ trace = <<>>

\* the pad of a request and the pad of the caller's link are the same pad
SamePad(d, pad) == d.entity = pad.entity /\ d.index = pad.index /\ d.flags = pad.flags

\* C12: for a link without the Immutable flag, setup_link(link, enabled)
\* issues exactly one setup-link request; its flags are the link's flags
\* with only the Enabled bit set to `enabled`, its source and sink pads are
\* the link's; the call returns Ok iff the driver accepts, and a refusal
\* (resource-busy included) is returned as that I/O error.
C12_OneSetupRequest ==
    (op = "setup_link" /\ ~ImmutableBit(call.link.flags))
       => /\ pc = "done"
          /\ Len(trace) = 1
          /\ trace[1].code = "MEDIA_IOC_SETUP_LINK"
          /\ EnabledBit(trace[1].arg.flags) = call.enabled
          /\ trace[1].arg.flags.hi = call.link.flags.hi
          /\ trace[1].arg.flags.lo \div 2 = call.link.flags.lo \div 2
          /\ SamePad(trace[1].arg.source, call.link.source)
          /\ SamePad(trace[1].arg.sink, call.link.sink)
          /\ (result = Ok(Unit)) = (trace[1].res = "Ok")
          /\ trace[1].res # "Ok"
                => /\ result.tag = "Err"
                   /\ result.error.os = trace[1].res
          /\ trace[1].res = "EBUSY" => result.error.kind = "ResourceBusy"

\* an enabled dynamic interface link is disabled and the driver is busy
C12_Witness ==
    /\ op = "setup_link"
    /\ pc = "done"
    /\ call.link.flags = U32(4096, 5)
    /\ ~call.enabled
    /\ Len(trace) = 1
    /\ trace[1].arg.flags = U32(4096, 4)
    /\ trace[1].res = "EBUSY"
    /\ result.tag = "Err"

-----------------------------------------------------------------------------
(* Properties of the descriptor handle *)

\* no thread is in the middle of dropping a reference
Quiescent == \A t \in Threads : dropping[t] = 0

\* C13: whatever clones of the Device and references from handle() are
\* made, moved between threads and released, in any order and
\* interleaving, the descriptor is closed at most once, it is never closed
\* while a reference still exists, and once every reference has been
\* released it has been closed exactly once.
C13_ClosedExactlyOnce ==
    /\ Len(closes) <= 1
    /\ Len(closes) = 1 => Held(Threads) = 0
    /\ (Held(Threads) = 0 /\ Quiescent) => Len(closes) = 1

\* the last reference was released by a thread other than the opener
C13_Witness ==
    /\ Held(Threads) = 0
    /\ Quiescent
    /\ Len(closes) = 1
    /\ closes[1].thread # Opener

-----------------------------------------------------------------------------
(* Properties of enum_entities *)

\* the function codes that entity.rs 67-80 classifies
Classified(d) ==
    d.type_ \in {"MEDIA_ENT_F_UNKNOWN", "MEDIA_ENT_F_V4L2_SUBDEV_UNKNOWN",
                 "MEDIA_ENT_F_IO_V4L", "MEDIA_ENT_F_CAM_SENSOR"}

\* the id an enumerate request must carry at position p: the id of the
\* previous response (zero before the first) with bit 31, the NEXT flag, set
CarriedId(p) ==
    LET prev == IF p = 1 THEN U32(0, 0) ELSE trace[p - 1].out.id
    IN  U32(IF prev.hi >= 32768 THEN prev.hi ELSE prev.hi + 32768, prev.lo)

NoHardError ==
    \A p \in 1..Len(trace) : trace[p].res \in {"Ok", "EINVAL"}

\* the call is over, the driver's last answer ended the list, and the
\* result is Ok with one entity per accepted request, in response order
WholeListReturned ==
    /\ Len(trace) >= 1
    /\ trace[Len(trace)].res = "EINVAL"
    /\ result.tag = "Ok"
    /\ Len(result.value) = Len(trace) - 1
    /\ \A j \in 1..(Len(trace) - 1) :
         /\ trace[j].res = "Ok"
         /\ result.value[j].id = trace[j].out.id
         /\ result.value[j].type_ = trace[j].out.type_
         /\ result.value[j].pads = trace[j].out.pads
         /\ result.value[j].links = trace[j].out.links

\* C14 as stated: against a driver that only ever answers with an entity or
\* with invalid-argument, a finished enum_entities has walked the whole
\* list and returned Ok with it.
C14_AsStated ==
    (op = "enum_entities" /\ pc = "done" /\ NoHardError) => WholeListReturned

\* C14: every request of enum_entities is an enumerate request whose id is
\* the NEXT flag OR'ed into the id of the previous response (into zero for
\* the first); against a driver exposing k >= 0 entities that all have one
\* of the four classified function codes, the call issues exactly k+1
\* requests and returns Ok with the k entities in response order, an empty
\* list when the very first answer is invalid-argument.
C14_EntityScan ==
    op = "enum_entities" =>
        /\ \A p \in 1..Len(trace) :
             /\ trace[p].code = "MEDIA_IOC_ENUM_ENTITIES"
             /\ trace[p].arg.id = CarriedId(p)
        /\ \A p \in 1..Len(trace) :
             (trace[p].res = "EINVAL" /\ \A j \in 1..(p - 1) : trace[j].res = "Ok")
                => p = Len(trace) /\ pc = "done"
        /\ ( /\ pc = "done"
             /\ NoHardError
             /\ \A p \in 1..Len(trace) : trace[p].res = "Ok" => Classified(trace[p].out) )
                => WholeListReturned

\* two entities, then the end of the list
C14_Witness ==
    /\ op = "enum_entities"
    /\ pc = "done"
    /\ Len(trace) = 3
    /\ trace[1].out.id = U32(0, 2)
    /\ trace[2].arg.id = U32(32768, 2)
    /\ trace[2].out.id = U32(0, 3)
    /\ trace[3].arg.id = U32(32768, 3)
    /\ trace[3].res = "EINVAL"
    /\ result.tag = "Ok"
    /\ Len(result.value) = 2

-----------------------------------------------------------------------------
(* Properties of control *)

\* the number a 32-bit word denotes when read as a signed integer
Signed32(w) ==
    IF w.hi >= 32768 THEN (w.hi - 65536) * 65536 + w.lo ELSE w.hi * 65536 + w.lo

\* a 64-bit pattern whose number lies in the signed 32-bit range
FitsIn32(x) ==
    \/ x.w1 = U32(0, 0) /\ x.w0.hi < 32768
    \/ x.w1 = U32(65535, 65535) /\ x.w0.hi >= 32768

ControlAnswered == op = "control" /\ pc = "done" /\ Len(trace) = 1

\* C15: when the get-controls request succeeds, control(desc) returns a
\* Control with id = desc.id whose value is decoded by desc.typ: Integer64
\* gives Integer(all 64 raw bits); Integer and Menu give Integer(n) with n
\* the number of the raw signed 32-bit value; Boolean gives Boolean(b) with
\* b true iff the raw 32-bit value is 1.
C15_DecodedByType ==
    (ControlAnswered /\ trace[1].res = "Ok"
       /\ call.desc.typ \in {"Integer64", "Integer", "Menu", "Boolean"})
       => /\ result.tag = "Ok"
          /\ result.value.id = call.desc.id
          /\ call.desc.typ = "Integer64"
                => /\ result.value.value.tag = "Integer"
                   /\ result.value.value.int.w1 = trace[1].out.w1
                   /\ result.value.value.int.w0 = trace[1].out.w0
          /\ call.desc.typ \in {"Integer", "Menu"}
                => /\ result.value.value.tag = "Integer"
                   /\ FitsIn32(result.value.value.int)
                   /\ Signed32(result.value.value.int.w0) = Signed32(trace[1].out.w0)
          /\ call.desc.typ = "Boolean"
                => /\ result.value.value.tag = "Boolean"
                   /\ result.value.value.bool = (Signed32(trace[1].out.w0) = 1)

\* a Menu control whose raw 32-bit value is -1 reads as Integer(-1)
C15_Witness ==
    /\ ControlAnswered
    /\ call.desc.typ = "Menu"
    /\ trace[1].res = "Ok"
    /\ trace[1].out = [w1 |-> U32(0, 0), w0 |-> U32(65535, 65535)]
    /\ result.tag = "Ok"
    /\ result.value.value.int = [w1 |-> U32(65535, 65535), w0 |-> U32(65535, 65535)]

UnsupportedType == call.desc.typ \notin {"Integer64", "Integer", "Menu", "Boolean"}

UnsupportedTypeError == [tag |-> "Err", error |-> [kind |-> "Other", os |-> "none"]]

\* C16 as stated: control(desc) for a description of any other type fails
\* with the unsupported-type error.
C16_AsStated ==
    (ControlAnswered /\ UnsupportedType) => result = UnsupportedTypeError

\* C16: control(desc) for a description whose type is not Integer64,
\* Integer, Menu or Boolean never returns a value: it fails with the
\* unsupported-type error when the get-controls request succeeded, and
\* with the driver's error when that request failed.
C16_UnsupportedTypeFails ==
    (op = "control" /\ UnsupportedType)
       => /\ ControlAnswered
          /\ result.tag = "Err"
          /\ trace[1].res = "Ok" => result = UnsupportedTypeError
          /\ trace[1].res # "Ok"
                => /\ result.error.os = trace[1].res
                   /\ result.error.kind = ErrorKind(trace[1].res)

\* an IntegerMenu control answered with raw 1
C16_Witness ==
    /\ ControlAnswered
    /\ call.desc.typ = "IntegerMenu"
    /\ trace[1].res = "Ok"
    /\ trace[1].out = [w1 |-> U32(0, 0), w0 |-> U32(0, 1)]
    /\ result = UnsupportedTypeError

\* the classification the four function codes must get
ExpectedType(d) ==
    CASE d.type_ = "MEDIA_ENT_F_UNKNOWN"             -> [tag |-> "Unknown"]
      [] d.type_ = "MEDIA_ENT_F_V4L2_SUBDEV_UNKNOWN" -> [tag |-> "Subdev"]
      [] d.type_ = "MEDIA_ENT_F_IO_V4L"              -> [tag |-> "Dev", major |-> d.major, minor |-> d.minor]
      [] d.type_ = "MEDIA_ENT_F_CAM_SENSOR"          -> [tag |-> "Camera"]

\* C17: in enum_entities an entity whose function code is UNKNOWN,
\* V4L2_SUBDEV_UNKNOWN, IO_V4L or CAM_SENSOR is classified as Unknown,
\* Subdev, Dev{major, minor} or Camera; an entity with any other function
\* code is fatal: it is the last exchange of the call, which ends without
\* returning either the list or an error.
C17_EntityClassification ==
    op = "enum_entities" =>
        /\ \A j \in 1..Len(collected) :
             /\ Classified(trace[j].out)
             /\ collected[j].entity_type = ExpectedType(trace[j].out)
        /\ result.tag = "Ok" => result.value = collected
        /\ \A p \in 1..Len(trace) :
             (trace[p].res = "Ok" /\ ~Classified(trace[p].out))
                => /\ p = Len(trace)
                   /\ pc = "done"
                   /\ result.tag \notin {"Ok", "Err"}
                   /\ result = Panicked

\* a video node was enumerated, then the driver returned a flash entity
C17_Witness ==
    /\ op = "enum_entities"
    /\ pc = "done"
    /\ Len(trace) = 2
    /\ trace[1].out.type_ = "MEDIA_ENT_F_IO_V4L"
    /\ collected[1].entity_type = [tag |-> "Dev", major |-> 81, minor |-> 0]
    /\ trace[2].res = "Ok"
    /\ trace[2].out.type_ = "MEDIA_ENT_F_FLASH"
    /\ result = Panicked

-----------------------------------------------------------------------------
(* Properties of enum_links *)

\* C18: enum_links(entity) issues exactly one enumerate-links request; it
\* names entity.id and carries a pad buffer of entity.pads cells and a link
\* buffer of entity.links cells; on success the result is Ok with exactly
\* entity.links links, the j-th being the j-th cell of the link buffer as
\* the driver left it; on a driver error the result is that error.
C18_OneEnumLinksRequest ==
    op = "enum_links" =>
        /\ pc = "done"
        /\ Len(trace) = 1
        /\ trace[1].code = "MEDIA_IOC_ENUM_LINKS"
        /\ trace[1].arg.entity = call.entity.id
        /\ Len(trace[1].arg.pads) = call.entity.pads
        /\ Len(trace[1].arg.links) = call.entity.links
        /\ trace[1].res = "Ok"
              => /\ result.tag = "Ok"
                 /\ Len(result.value) = call.entity.links
                 /\ \A j \in 1..call.entity.links :
                      /\ result.value[j].flags = trace[1].out[j].flags
                      /\ SamePad(trace[1].out[j].source, result.value[j].source)
                      /\ SamePad(trace[1].out[j].sink, result.value[j].sink)
        /\ trace[1].res # "Ok"
              => /\ result.tag = "Err"
                 /\ result.error.os = trace[1].res

\* an entity with one pad and two links, whose two links differ
C18_Witness ==
    /\ op = "enum_links"
    /\ pc = "done"
    /\ call.entity.pads = 1
    /\ call.entity.links = 2
    /\ trace[1].res = "Ok"
    /\ result.tag = "Ok"
    /\ Len(result.value) = 2
    /\ result.value[1].flags = U32(4096, 0)
    /\ result.value[2].flags = U32(0, 3)

-----------------------------------------------------------------------------
(* Properties of the single-request operations *)

SingleExchangeOps ==
    {"query_caps", "control", "set_controls", "input", "set_input", "output",
     "set_output", "device_info", "enum_links", "setup_link",
     "Request::queue", "Request::reinit"}

\* C19: no automatic retry: a call of query_caps, control, set_controls,
\* input, set_input, output, set_output, device_info, enum_links,
\* setup_link, Request::queue or Request::reinit issues at most one device
\* request, and when that request fails the call is over and has returned
\* the driver's error, the request not being issued again.
C19_NoRetry ==
    op \in SingleExchangeOps =>
        /\ Len(trace) <= 1
        /\ pc = "done"
        /\ (Len(trace) = 1 /\ trace[1].res # "Ok")
              => /\ result.tag = "Err"
                 /\ result.error.os = trace[1].res
                 /\ result.error.kind = ErrorKind(trace[1].res)

\* set_input refused by the driver
C19_Witness ==
    /\ op = "set_input"
    /\ pc = "done"
    /\ Len(trace) = 1
    /\ trace[1].code = "VIDIOC_S_INPUT"
    /\ trace[1].res = "EIO"
    /\ result = [tag |-> "Err", error |-> [kind |-> "Other", os |-> "EIO"]]

-----------------------------------------------------------------------------
(* Properties of the descriptions of query_controls *)

\* C20: in every description returned by query_controls (and in every one
\* collected on the way), the menu-item list is present, possibly empty,
\* if and only if the control's type is Menu or IntegerMenu.
C20_ItemsIffMenu ==
    op = "query_controls" =>
        \A j \in 1..Len(Returned) :
            Returned[j].items.some <=> Returned[j].typ \in {"Menu", "IntegerMenu"}

\* a menu whose range is empty and an integer control were returned
C20_Witness ==
    /\ op = "query_controls"
    /\ result.tag = "Ok"
    /\ Len(result.value) = 2
    /\ result.value[1].typ = "Menu"
    /\ result.value[1].items = [some |-> TRUE, list |-> <<>>]
    /\ result.value[2].typ = "Integer"
    /\ ~result.value[2].items.some

-----------------------------------------------------------------------------
(* Properties of Version *)

\* byte k (0 = lowest) of a 32-bit value kept as two 16-bit halves
ByteOf(v, k) ==
    CASE k = 0 -> v.lo - 256 * (v.lo \div 256)
      [] k = 1 -> v.lo \div 256
      [] k = 2 -> v.hi - 256 * (v.hi \div 256)
      [] k = 3 -> v.hi \div 256

Decodes(version, v) ==
    /\ version.major = ByteOf(v, 2)
    /\ version.minor = ByteOf(v, 1)
    /\ version.patch = ByteOf(v, 0)

InfoReturned ==
    op = "device_info" /\ pc = "done" /\ Len(trace) = 1 /\ trace[1].res = "Ok"

\* C21: Version::from(v) has major = (v >> 16) & 0xFF, minor = (v >> 8) &
\* 0xFF and patch = v & 0xFF for every packed value v the driver reports in
\* media_version or driver_version; bits 24-31 of v do not reach the
\* result, and 0x00050102 decodes to 5.1.2.
C21_VersionDecoding ==
    InfoReturned =>
        /\ result.tag = "Ok"
        /\ Decodes(result.value.media_version, trace[1].out.media_version)
        /\ Decodes(result.value.driver_version, trace[1].out.driver_version)
        /\ result.value.media_version.major \in 0..255
        /\ result.value.driver_version.major \in 0..255
        /\ trace[1].out.media_version = [hi |-> 5, lo |-> 258]
              => result.value.media_version = [major |-> 5, minor |-> 1, patch |-> 2]

\* media_version is 0x00050102 and driver_version is 0xFF050102: both
\* decode to 5.1.2
C21_Witness ==
    /\ InfoReturned
    /\ trace[1].out.media_version = [hi |-> 5, lo |-> 258]
    /\ trace[1].out.driver_version = [hi |-> 65285, lo |-> 258]
    /\ result.value.media_version = [major |-> 5, minor |-> 1, patch |-> 2]
    /\ result.value.driver_version = result.value.media_version

-----------------------------------------------------------------------------
(* Properties of the continuation protocol of query_controls *)

\* bit b (14 or 15) of the upper half of an id
UpperBit(id, b) == (id.hi \div (IF b = 15 THEN 32768 ELSE 16384)) % 2

\* the id with bit 31 (NEXT_CTRL) and bit 30 (NEXT_COMPOUND) set
WithBothFlags(id) ==
    [hi |-> id.hi + (1 - UpperBit(id, 15)) * 32768 + (1 - UpperBit(id, 14)) * 16384,
     lo |-> id.lo]

\* the query-next request that a menu query at position p belongs to
OwnerOf(p) ==
    CHOOSE q \in 1..(p - 1) :
        /\ trace[q].code = "VIDIOC_QUERY_EXT_CTRL"
        /\ \A r \in (q + 1)..(p - 1) : trace[r].code = "VIDIOC_QUERYMENU"

\* C22: the first query-next request of query_controls carries id 0 with
\* NEXT_CTRL and NEXT_COMPOUND set; every later one carries the id the
\* driver returned in the previous query-next response with both flags
\* OR'ed in, whatever menu queries were issued in between; every menu query
\* carries exactly the id the driver returned for its control.
C22_ContinuationProtocol ==
    op = "query_controls" =>
        /\ \A j \in 1..Len(QueryNextPos) :
             trace[QueryNextPos[j]].arg.id =
                WithBothFlags(IF j = 1 THEN [hi |-> 0, lo |-> 0]
                              ELSE trace[QueryNextPos[j - 1]].out.id)
        /\ \A p \in 1..Len(trace) :
             trace[p].code = "VIDIOC_QUERYMENU" =>
                /\ \E q \in 1..(p - 1) :
                     /\ trace[q].code = "VIDIOC_QUERY_EXT_CTRL"
                     /\ \A r \in (q + 1)..(p - 1) : trace[r].code = "VIDIOC_QUERYMENU"
                /\ trace[OwnerOf(p)].res = "Ok"
                /\ trace[p].arg.id = trace[OwnerOf(p)].out.id

\* a menu control was scanned with two menu queries, and the next
\* query-next request continues from that control's id
C22_Witness ==
    /\ op = "query_controls"
    /\ Len(trace) = 4
    /\ trace[1].arg.id = [hi |-> 49152, lo |-> 0]
    /\ trace[1].out.id = [hi |-> 154, lo |-> 2305]
    /\ trace[2].code = "VIDIOC_QUERYMENU"
    /\ trace[2].arg.id = [hi |-> 154, lo |-> 2305]
    /\ trace[3].code = "VIDIOC_QUERYMENU"
    /\ trace[4].code = "VIDIOC_QUERY_EXT_CTRL"
    /\ trace[4].arg.id = [hi |-> 49306, lo |-> 2305]

-----------------------------------------------------------------------------
(* Properties of the request built by set_controls *)

\* the byte length of the buffer behind a value
ByteLength(v) ==
    CASE v.tag \in {"None", "Integer", "Boolean"}            -> 0
      [] v.tag \in {"String", "CompoundU8", "CompoundPtr"}   -> Len(v.buf)
      [] v.tag = "CompoundU16"                               -> 2 * Len(v.buf)
      [] v.tag = "CompoundU32"                               -> 4 * Len(v.buf)

\* C23: in the request built by set_controls, the size field of each
\* control is the byte length of its value's backing buffer: 0 for None,
\* Integer and Boolean, len for String, CompoundU8 and CompoundPtr, 2*len
\* for CompoundU16 and 4*len for CompoundU32.
C23_SizeIsByteLength ==
    op = "set_controls" =>
        \A p \in 1..Len(trace) :
            /\ Len(trace[p].arg.controls) = Len(ctrls)
            /\ \A j \in 1..Len(ctrls) :
                 trace[p].arg.controls[j].size = ByteLength(ctrls[j].value)

\* three u16 elements are 6 bytes, two u32 elements are 8 bytes
C23_Witness ==
    /\ op = "set_controls"
    /\ Len(trace) = 1
    /\ Len(ctrls) = 3
    /\ ctrls[1].value.tag = "CompoundU16"
    /\ trace[1].arg.controls[1].size = 6
    /\ ctrls[2].value.tag = "CompoundU32"
    /\ trace[1].arg.controls[2].size = 8
    /\ ctrls[3].value.tag = "None"
    /\ trace[1].arg.controls[3].size = 0
-----------------------------------------------------------------------------
(* Properties of control: the request comes before the type *)

\* C24: control(desc) issues the get-controls request before it looks at
\* desc.typ: for a description of an unsupported type the device is still
\* queried exactly once, for desc.id, and when that request fails the
\* result is the driver's error, not the unsupported-type error.
C24_QueriedBeforeTypeCheck ==
    (op = "control" /\ UnsupportedType)
       => /\ Len(trace) = 1
          /\ trace[1].code = "VIDIOC_G_EXT_CTRLS"
          /\ trace[1].arg.count = 1
          /\ trace[1].arg.controls[1].id = call.desc.id
          /\ trace[1].res # "Ok"
                => /\ result # UnsupportedTypeError
                   /\ result = [tag |-> "Err",
                                error |-> [kind |-> ErrorKind(trace[1].res),
                                           os |-> trace[1].res]]

\* a String control whose read the driver refuses with invalid-argument
C24_Witness ==
    /\ ControlAnswered
    /\ call.desc.typ = "String"
    /\ trace[1].res = "EINVAL"
    /\ result = [tag |-> "Err", error |-> [kind |-> "InvalidInput", os |-> "EINVAL"]]

-----------------------------------------------------------------------------
(* Properties of query_controls: a menu with step 0 *)

ZeroStepMenu(p) ==
    /\ trace[p].code = "VIDIOC_QUERY_EXT_CTRL"
    /\ trace[p].res = "Ok"
    /\ trace[p].out.type \in {"Menu", "IntegerMenu"}
    /\ trace[p].out.step = 0

\* C25: when the driver returns a Menu or IntegerMenu control whose step
\* is 0, query_controls does not return: that response is the last
\* exchange (no menu query is issued for the control) and the call ends by
\* a panic, with neither the controls collected so far nor an error value.
C25_ZeroStepAborts ==
    op = "query_controls" =>
        \A p \in 1..Len(trace) :
            ZeroStepMenu(p) =>
                /\ p = Len(trace)
                /\ pc = "done"
                /\ result.tag \notin {"Ok", "Err"}
                /\ result = Panicked

\* one control had been collected when the zero-step menu arrived
C25_Witness ==
    /\ op = "query_controls"
    /\ Len(trace) = 2
    /\ Len(controls) = 1
    /\ ZeroStepMenu(2)
    /\ pc = "done"
    /\ result = Panicked

-----------------------------------------------------------------------------
(* Properties of Drop for Handle *)

\* C26: when the last reference to a Handle is released and closing the
\* descriptor fails, the failure is not swallowed: the release that made
\* the close ends in a panic instead of completing normally.
C26_CloseFailurePanics ==
    \A i \in 1..Len(closes) :
        closes[i].res # "Ok" => closes[i].panic

\* every reference is gone, and the one close failed with EIO
C26_Witness ==
    /\ Held(Threads) = 0
    /\ Len(closes) = 1
    /\ closes[1].res = "EIO"
    /\ closes[1].panic

====
